---------------------------- MODULE Spec2Model ----------------------------
(***************************************************************************)
(* A model of nemo/collections/common/data/lhotse/cutset.py: the          *)
(* resolution of a nested dataset configuration (read_dataset_config,     *)
(* parse_and_combine_datasets, parse_group, read_nemo_manifest,           *)
(* read_lhotse_manifest, mux) into one stream of cuts, and the iteration  *)
(* of that stream.                                                        *)
(*                                                                         *)
(* Python values.  None is the empty tuple.  A value whose Python type is *)
(* tested with isinstance is a one-field record: [str |-> p] is a string  *)
(* (a path, named by a number), [num |-> k] a number, [list |-> s] a      *)
(* list.  A DictConfig is a function from its keys; "k in item" is        *)
(* k \in DOMAIN item.  A CutSet is the index of its entry in the table    *)
(* streams.                                                               *)
(***************************************************************************)
EXTENDS Integers, Sequences, FiniteSets, TLC

VARIABLES
    fs,         \* the leaf sources on disk: path -> the record count of each shard
    config,     \* the root configuration handed to read_dataset_config
    items,      \* the nodes of config.input_config: node -> DictConfig
    items0,     \* items as it was before resolution (history)
    phase,      \* "config" before read_dataset_config ran, then "resolved" or "failed"
    cuts,       \* the CutSet read_dataset_config returned (0: none)
    is_tarred,  \* the flag read_dataset_config returned
    err,        \* the exception read_dataset_config raised, or None
    streams,    \* every CutSet built by the resolution
    log,        \* what the resolution did, in order (history)
    iter,       \* the iterators of the running pipeline
    emitted,    \* the cuts pulled so far out of the returned CutSet, latest last
    pulls,      \* how many pulls were made
    budget      \* how many pulls the consumer makes

vars == <<fs, config, items, items0, phase, cuts, is_tarred, err, streams, log,
          iter, emitted, pulls, budget>>

---------------------------------------------------------------------------
(* Bounds of the model. *)
MaxNodes == 3      \* nodes of a configuration tree
MaxPaths == 2      \* entries of a multi-path leaf
MaxShards == 2     \* shards of one source
MaxPulls == 3      \* pulls on the returned CutSet

---------------------------------------------------------------------------
(* Python values. *)
None == <<>>
Str(p) == [str |-> p]
Num(k) == [num |-> k]
List(s) == [list |-> s]
IsStr(v) == "str" \in DOMAIN v
IsNum(v) == "num" \in DOMAIN v
IsList(v) == "list" \in DOMAIN v

get(d, k) == IF k \in DOMAIN d THEN d[k] ELSE None

Min(a, b) == IF a <= b THEN a ELSE b

RECURSIVE Sum(_)
Sum(s) == IF s = <<>> THEN 0 ELSE Head(s) + Sum(Tail(s))

RECURSIVE Concat(_)
Concat(ss) == IF ss = <<>> THEN <<>> ELSE Head(ss) \o Concat(Tail(ss))

KNOWN_DATASET_CONFIG_TYPES == {"nemo", "nemo_tarred", "lhotse", "lhotse_shar", "group"}

PropagatedKeys ==
    {"shuffle", "shard_seed", "text_field", "lang_field",
     "missing_sampling_rate_ok", "max_open_streams"}

---------------------------------------------------------------------------
(* The state of a resolution in progress: the configuration nodes (which  *)
(* the resolution writes to), the CutSets built so far, the log, and the  *)
(* exception raised, if any.                                              *)
World(its) == [items |-> its, streams |-> <<>>, log |-> <<>>, err |-> None]
Raise(w, e) == [w EXCEPT !.err = <<e>>]
Raised(w) == w.err # None
Note(w, e) == [w EXCEPT !.log = Append(@, e)]

Stream(kind) ==
    [kind |-> kind, node |-> 0, path |-> 0, shard |-> 0, count |-> 0,
     children |-> <<>>, weights |-> <<>>, max_open_streams |-> None,
     seed |-> None, tags |-> <<>>]

Alloc(w, s) ==
    [w |-> [w EXCEPT !.streams = Append(@, s)], cuts |-> Len(w.streams) + 1]

(* The leaf source collaborators: LazyNeMoIterator, LazyNeMoTarredIterator *)
(* and the lazy readers behind CutSet.from_shar and CutSet.from_file.      *)
(* Constructing one is logged; so is asking its length.                    *)
LazySource(w, n, p, kwargs) ==
    [w |-> Note(w, [ev |-> "open", node |-> n, path |-> p, kwargs |-> kwargs]),
     src |-> [node |-> n, path |-> p, shard |-> 0, count |-> Sum(fs[p])]]

SourceLen(w, src) ==
    [w |-> Note(w, [ev |-> "len", node |-> src.node, path |-> src.path]),
     weight |-> src.count]

to_shards(src) ==
    [j \in 1..Len(fs[src.path]) |-> [src EXCEPT !.shard = j, !.count = fs[src.path][j]]]

CutSet(w, src) ==
    Alloc(w, [Stream("source") EXCEPT !.node = src.node, !.path = src.path,
                                       !.shard = src.shard, !.count = src.count])

CutSetOf(o) == CutSet(o.w, o.src)

Repeat(w, c) == Alloc(w, [Stream("repeat") EXCEPT !.children = <<c>>])

RepeatOf(c) == Repeat(c.w, c.cuts)

RECURSIVE RepeatAll(_, _, _)
RepeatAll(w, cutsets, acc) ==
    IF cutsets = <<>> THEN [w |-> w, cuts |-> acc]
    ELSE RepeatAll(Repeat(w, Head(cutsets)).w, Tail(cutsets),
                   Append(acc, Len(w.streams) + 1))

Map(w, c, tags) == Alloc(w, [Stream("map") EXCEPT !.children = <<c>>, !.tags = tags])

(* mux: infinite_mux when max_open_streams is set, else CutSet.mux over    *)
(* the repeated inputs.  The call is logged with what it was handed.       *)
MuxCall(a, cutsets, weights, max_open_streams, seed) ==
    [w |-> Note(a.w, [ev |-> "mux", cutsets |-> cutsets, weights |-> weights,
                      max_open_streams |-> max_open_streams, seed |-> seed,
                      cuts |-> a.cuts]),
     cuts |-> a.cuts]

MuxOver(r, cutsets, weights, max_open_streams, seed) ==
    MuxCall(Alloc(r.w, [Stream("mux") EXCEPT !.children = r.cuts,
                                              !.weights = weights, !.seed = seed]),
            cutsets, weights, max_open_streams, seed)

\* mux had it ignored max_open_streams
mux_unbounded(w, cutsets, weights, max_open_streams, seed) ==
    MuxOver(RepeatAll(w, cutsets, <<>>), cutsets, weights, max_open_streams, seed)

mux(w, cutsets, weights, max_open_streams, seed) ==
    IF max_open_streams # None
    THEN MuxCall(Alloc(w, [Stream("infinite_mux") EXCEPT
                              !.children = cutsets, !.weights = weights,
                              !.seed = seed,
                              !.max_open_streams = max_open_streams]),
                 cutsets, weights, max_open_streams, seed)
    ELSE MuxOver(RepeatAll(w, cutsets, <<>>), cutsets, weights, max_open_streams, seed)

\* the multiplexer over the streams a leaf collected, unless the loop raised
MuxCollected(r, max_open_streams, seed) ==
    IF Raised(r.w) THEN [w |-> r.w, cuts |-> 0]
    ELSE mux(r.w, r.cutsets, r.weights, max_open_streams, seed)

---------------------------------------------------------------------------
(* read_nemo_manifest.  zip() stops at the shorter of its arguments.       *)
Zip(a, b) == [i \in 1..Min(Len(a), Len(b)) |-> <<a[i], b[i]>>]

nemo_tar_paths(cfg, is_tar) ==
    IF is_tar THEN cfg["tarred_audio_filepaths"].list
    ELSE [i \in 1..Len(cfg["manifest_filepath"].list) |-> <<None>>]

nemo_kwargs(cfg, is_tar, tar_paths) ==
    IF is_tar
    THEN [text_field |-> cfg["text_field"], lang_field |-> cfg["lang_field"],
          tar_paths |-> tar_paths, shuffle_shards |-> cfg["shuffle"]]
    ELSE [text_field |-> cfg["text_field"], lang_field |-> cfg["lang_field"],
          missing_sampling_rate_ok |-> cfg["missing_sampling_rate_ok"]]

\* lines 310-323: the weight of the source opened as o
nemo_weight(o, manifest_info) ==
    IF Len(manifest_info) = 1 THEN SourceLen(o.w, o.src)
    ELSE IF ~(Len(manifest_info) = 2 /\ IsNum(manifest_info[2]))
    THEN [w |-> Raise(o.w, "Supported inputs types for config.manifest_filepath are"),
          weight |-> 0]
    ELSE [w |-> o.w, weight |-> manifest_info[2].num]

\* lines 329-335: the streams one source contributes
nemo_split(cfg, nemo_iter) ==
    IF cfg["max_open_streams"] # None THEN to_shards(nemo_iter) ELSE <<nemo_iter>>

RECURSIVE nemo_cutsets(_, _, _)
nemo_cutsets(srcs, weight, acc) ==
    IF srcs = <<>> THEN acc
    ELSE nemo_cutsets(Tail(srcs), weight,
                      [w |-> CutSet(acc.w, Head(srcs)).w,
                       cutsets |-> Append(acc.cutsets, Len(acc.w.streams) + 1),
                       weights |-> Append(acc.weights, weight)])

\* lines 329-335 had the weight been shared out among the shards
nemo_stream_divided(o, wt, n, acc) ==
    IF Raised(wt.w) THEN [acc EXCEPT !.w = wt.w]
    ELSE nemo_cutsets(nemo_split(wt.w.items[n], o.src),
                      wt.weight \div Len(nemo_split(wt.w.items[n], o.src)),
                      [acc EXCEPT !.w = wt.w])

\* lines 329-335: every stream of the source joins the lists with its weight
nemo_stream(o, wt, n, acc) ==
    IF Raised(wt.w) THEN [acc EXCEPT !.w = wt.w]
    ELSE nemo_cutsets(nemo_split(wt.w.items[n], o.src), wt.weight,
                      [acc EXCEPT !.w = wt.w])

nemo_opened(o, manifest_info, n, acc) ==
    nemo_stream(o, nemo_weight(o, manifest_info), n, acc)

\* the loop of lines 300-335 over the (manifest_info, (tar_path,)) pairs left
RECURSIVE nemo_streams(_, _, _, _)
nemo_streams(n, is_tar, pairs, acc) ==
    IF pairs = <<>> \/ Raised(acc.w) THEN acc
    ELSE nemo_streams(n, is_tar, Tail(pairs),
            nemo_opened(LazySource(acc.w, n, Head(pairs)[1][1].str,
                                   nemo_kwargs(acc.w.items[n], is_tar, Head(pairs)[2][1])),
                        Head(pairs)[1], n, acc))

read_nemo_manifest(w, n, is_tar) ==
    IF IsStr(w.items[n]["manifest_filepath"])
    THEN CutSetOf(LazySource(w, n, w.items[n]["manifest_filepath"].str,
                             nemo_kwargs(w.items[n], is_tar,
                                         get(w.items[n], "tarred_audio_filepaths"))))
    ELSE MuxCollected(
             nemo_streams(n, is_tar,
                          Zip(w.items[n]["manifest_filepath"].list,
                              nemo_tar_paths(w.items[n], is_tar)),
                          [w |-> w, cutsets |-> <<>>, weights |-> <<>>]),
             w.items[n]["max_open_streams"], w.items[n]["shard_seed"])

---------------------------------------------------------------------------
(* read_lhotse_manifest. *)
shar_kwargs(cfg) == [shuffle_shards |-> TRUE, seed |-> cfg["shard_seed"]]

\* lines 236-248: the source of one item of config.shar_path and its weight
shar_weight(w, n, item) ==
    IF IsStr(item)
    THEN SourceLen(LazySource(w, n, item.str, shar_kwargs(w.items[n])).w,
                   LazySource(w, n, item.str, shar_kwargs(w.items[n])).src)
    ELSE IF ~(IsList(item) /\ Len(item.list) = 2 /\ IsNum(item.list[2]))
    THEN [w |-> Raise(w, "Supported inputs types for config.shar_path are"),
          weight |-> 0]
    ELSE [w |-> LazySource(w, n, item.list[1].str, shar_kwargs(w.items[n])).w,
          weight |-> item.list[2].num]

shar_path_of(item) == IF IsStr(item) THEN item.str ELSE item.list[1].str

\* lines 250-251: cs.repeat() and its weight join the lists
shar_stream(wt, n, item, acc) ==
    IF Raised(wt.w) THEN [acc EXCEPT !.w = wt.w]
    ELSE [w |-> RepeatOf(CutSet(wt.w, [node |-> n, path |-> shar_path_of(item),
                                       shard |-> 0,
                                       count |-> Sum(fs[shar_path_of(item)])])).w,
          cutsets |-> Append(acc.cutsets, Len(wt.w.streams) + 2),
          weights |-> Append(acc.weights, wt.weight)]

\* the loop of lines 235-251 over the items of config.shar_path left
RECURSIVE shar_streams(_, _, _)
shar_streams(n, shar_items, acc) ==
    IF shar_items = <<>> \/ Raised(acc.w) THEN acc
    ELSE shar_streams(n, Tail(shar_items),
                      shar_stream(shar_weight(acc.w, n, Head(shar_items)), n,
                                  Head(shar_items), acc))

read_lhotse_manifest(w, n, is_tar) ==
    IF is_tar
    THEN IF IsStr(w.items[n]["shar_path"])
         THEN RepeatOf(CutSetOf(LazySource(w, n, w.items[n]["shar_path"].str,
                                           shar_kwargs(w.items[n]))))
         ELSE MuxCollected(
                  shar_streams(n, w.items[n]["shar_path"].list,
                               [w |-> w, cutsets |-> <<>>, weights |-> <<>>]),
                  w.items[n]["max_open_streams"], w.items[n]["shard_seed"])
    ELSE CutSetOf(LazySource(w, n, w.items[n]["cuts_path"].str, <<>>))

---------------------------------------------------------------------------
(* parse_and_combine_datasets and parse_group. *)

\* the propagation loop had line 182 not copied: the writes to
\* next_propagate_attrs would reach propagate_attrs
propagate_aliased(item, propagate_attrs) ==
    [item |-> item @@ propagate_attrs,
     next_propagate_attrs |->
         [k \in DOMAIN propagate_attrs |->
             IF k \in DOMAIN item THEN item[k] ELSE propagate_attrs[k]],
     propagate_attrs |->
         [k \in DOMAIN propagate_attrs |->
             IF k \in DOMAIN item THEN item[k] ELSE propagate_attrs[k]]]

\* the propagation loop had it assigned every key, present in the item or not
propagate_overwriting(item, propagate_attrs) ==
    [item |-> propagate_attrs @@ item,
     next_propagate_attrs |-> propagate_attrs,
     propagate_attrs |-> propagate_attrs]

(* Lines 182-187: what the item, the child's attributes and the caller's   *)
(* own attributes are after the propagation loop.  next_propagate_attrs is *)
(* a copy, so writing to it leaves propagate_attrs alone.                  *)
propagate(item, propagate_attrs) ==
    [item |-> item @@ propagate_attrs,
     next_propagate_attrs |->
         [k \in DOMAIN propagate_attrs |->
             IF k \in DOMAIN item THEN item[k] ELSE propagate_attrs[k]],
     propagate_attrs |-> propagate_attrs]

\* attach_tags had it kept an attribute the cut already has
attach_tags_setdefault(cut, tags) ==
    [cut EXCEPT !.tags = @ @@ tags]

\* lines 162-165: setattr for every tag, over what the cut already has
attach_tags(cut, tags) ==
    [cut EXCEPT !.tags = tags @@ @]

\* the assertion of line 196 with any() for all()
same_tarred_any(tarred_status) ==
    \E i \in DOMAIN tarred_status : tarred_status[i] = tarred_status[1]

\* line 196: the assertion on the flags collected
same_tarred(tarred_status) ==
    \A i \in DOMAIN tarred_status : tarred_status[i] = tarred_status[1]

\* line 197: the assertion on the weights collected
weights_complete(cutsets, weights) == Len(cutsets) = Len(weights)

\* line 200 passes no seed: mux's default applies (line 342)
group_seed(propagate_attrs) == Str("trng")

leaf_is_tarred(type) == type \in {"nemo_tarred", "lhotse_shar"}

Failure(w, e) == [w |-> Raise(w, e), cuts |-> 0, is_tarred |-> FALSE]

RECURSIVE parse_group(_, _, _)
RECURSIVE parse_and_combine_datasets(_, _, _)

\* lines 191-194: what parse_group returned as r joins the lists
combine_item(r, n, acc) ==
    IF Raised(r.w) THEN [acc EXCEPT !.w = r.w]
    ELSE [acc EXCEPT !.w = r.w,
                     !.cuts = Append(@, r.cuts),
                     !.tarred_status = Append(@, r.is_tarred),
                     !.weights = IF get(r.w.items[n], "weight") # None
                                 THEN Append(@, r.w.items[n]["weight"].num)
                                 ELSE @]

combine_step(p, n, acc) ==
    combine_item(parse_group([acc.w EXCEPT !.items[n] = p.item], n,
                             p.next_propagate_attrs),
                 n, [acc EXCEPT !.propagate_attrs = p.propagate_attrs])

\* the loop of lines 176-194 over the items of config_list left
RECURSIVE combine_items(_, _)
combine_items(config_list, acc) ==
    IF config_list = <<>> \/ Raised(acc.w) THEN acc
    ELSE combine_items(Tail(config_list),
                       combine_step(propagate(acc.w.items[Head(config_list)],
                                              acc.propagate_attrs),
                                    Head(config_list), acc))

combined_mux(m, r, config_list) ==
    [w |-> Note(m.w, [ev |-> "combined", config_list |-> config_list,
                      propagate_attrs |-> r.propagate_attrs, cuts |-> m.cuts]),
     cuts |-> m.cuts, is_tarred |-> r.tarred_status[1]]

\* lines 196-201; "weights if weights else None" is the list itself here,
\* an empty list and None being the same value
combined(r, config_list) ==
    IF Raised(r.w) THEN [w |-> r.w, cuts |-> 0, is_tarred |-> FALSE]
    ELSE IF ~same_tarred(r.tarred_status)
    THEN Failure(r.w, "Mixing tarred and non-tarred datasets is not supported.")
    ELSE IF ~weights_complete(r.cuts, r.weights)
    THEN Failure(r.w, "Missing dataset weight.")
    ELSE combined_mux(mux(r.w, r.cuts, r.weights,
                          get(r.propagate_attrs, "max_open_streams"),
                          group_seed(r.propagate_attrs)),
                      r, config_list)

parse_and_combine_datasets(w, config_list, propagate_attrs) ==
    IF Len(config_list) = 0
    THEN Failure(w, "Empty group in dataset config list.")
    ELSE combined(combine_items(config_list,
                      [w |-> Note(w, [ev |-> "combine", config_list |-> config_list,
                                      propagate_attrs |-> propagate_attrs]),
                       cuts |-> <<>>, weights |-> <<>>, tarred_status |-> <<>>,
                       propagate_attrs |-> propagate_attrs]),
                  config_list)

Leaf(c, is_tar) == [w |-> c.w, cuts |-> c.cuts, is_tarred |-> is_tar]

\* lines 140-155
dispatch(w, n, propagate_attrs) ==
    CASE w.items[n]["type"] = "nemo_tarred" -> Leaf(read_nemo_manifest(w, n, TRUE), TRUE)
      [] w.items[n]["type"] = "nemo" -> Leaf(read_nemo_manifest(w, n, FALSE), FALSE)
      [] w.items[n]["type"] = "lhotse_shar" -> Leaf(read_lhotse_manifest(w, n, TRUE), TRUE)
      [] w.items[n]["type"] = "lhotse" -> Leaf(read_lhotse_manifest(w, n, FALSE), FALSE)
      [] w.items[n]["type"] = "group" ->
            parse_and_combine_datasets(w, w.items[n]["components"], propagate_attrs)
      [] OTHER -> Failure(w, "Unrecognized group")

TaggedMap(m, is_tar) == [w |-> m.w, cuts |-> m.cuts, is_tarred |-> is_tar]

\* lines 157-159
tagged(r, extra_tags) ==
    IF Raised(r.w) \/ extra_tags = None THEN r
    ELSE TaggedMap(Map(r.w, r.cuts, extra_tags), r.is_tarred)

parse_group(w, n, propagate_attrs) ==
    IF w.items[n]["type"] \notin KNOWN_DATASET_CONFIG_TYPES
    THEN Failure(Note(w, [ev |-> "parse_group", node |-> n,
                          propagate_attrs |-> propagate_attrs]),
                 "Unknown item type in dataset config list")
    ELSE tagged(dispatch(Note(w, [ev |-> "parse_group", node |-> n,
                                  propagate_attrs |-> propagate_attrs]),
                         n, propagate_attrs),
                get(w.items[n], "tags"))

read_dataset_config(cfg, its) ==
    parse_and_combine_datasets(World(its), cfg["input_config"],
                               [k \in PropagatedKeys |-> cfg[k]])

---------------------------------------------------------------------------
(* Iteration.  An iterator state it holds, per CutSet of the table S, the  *)
(* position of a source's iterator (pos), and the inputs a multiplexer     *)
(* holds open (open) once it has begun (begun).  Pulling the next cut out  *)
(* of CutSet s yields a set of outcomes, one per random draw: the cut (or  *)
(* stop, for StopIteration) and the iterator state after it.               *)
NewIter(S) ==
    [pos |-> [s \in DOMAIN S |-> 0], open |-> [s \in DOMAIN S |-> {}], begun |-> {}]

Stopped(it) == [cut |-> None, it |-> it, stop |-> TRUE]

\* iter(s): a fresh iterator over a finite CutSet (a source, or a map over one)
RECURSIVE restart(_, _, _)
restart(S, s, it) ==
    IF S[s].kind = "source" THEN [it EXCEPT !.pos[s] = 0]
    ELSE IF S[s].kind = "map" THEN restart(S, S[s].children[1], it)
    ELSE it

\* the inputs a weighted draw can select: those of positive weight
Drawable(st) ==
    {st.children[i] : i \in {j \in DOMAIN st.children :
                                st.weights = <<>> \/ st.weights[j] > 0}}

RECURSIVE restart_all(_, _, _)
restart_all(S, cs, it) ==
    IF cs = {} THEN it
    ELSE LET c == CHOOSE x \in cs : TRUE
         IN restart_all(S, cs \ {c}, restart(S, c, it))

RECURSIVE pull(_, _, _)

\* CutSet.infinite_mux: at most max_open_streams inputs are open; an
\* exhausted input is closed and a replacement drawn from the closed ones.
infinite_mux_pull(S, s, it) ==
    LET st == S[s]
        k == Min(st.max_open_streams[1], Cardinality(Drawable(st)))
        begins == IF s \in it.begun THEN {it}
                  ELSE {[restart_all(S, O, it) EXCEPT !.open[s] = O, !.begun = @ \cup {s}] :
                          O \in {X \in SUBSET Drawable(st) : Cardinality(X) = k}}
        replaced(c, it1) ==
            UNION {pull(S, c2, [restart(S, c2, it1) EXCEPT
                                   !.open[s] = (@ \ {c}) \cup {c2}]) :
                     c2 \in Drawable(st) \ (it1.open[s] \ {c})}
    IN UNION {UNION {UNION {IF o.stop THEN replaced(c, o.it) ELSE {o} :
                              o \in pull(S, c, it1)} :
                       c \in it1.open[s]} :
                it1 \in begins}

\* CutSet.mux: every input is open from the first pull on
mux_pull(S, s, it) ==
    LET st == S[s]
        it1 == [it EXCEPT !.open[s] = {st.children[i] : i \in DOMAIN st.children},
                          !.begun = @ \cup {s}]
    IN UNION {pull(S, c, it1) : c \in Drawable(st)}

pull(S, s, it) ==
    LET st == S[s]
    IN CASE st.kind = "source" ->
              IF it.pos[s] < st.count
              THEN {[cut |-> [node |-> st.node, path |-> st.path, shard |-> st.shard,
                              index |-> it.pos[s] + 1, tags |-> <<>>],
                     it |-> [it EXCEPT !.pos[s] = @ + 1], stop |-> FALSE]}
              ELSE {Stopped(it)}
         [] st.kind = "map" ->
              {IF o.stop THEN o ELSE [o EXCEPT !.cut = attach_tags(@, st.tags)] :
                 o \in pull(S, st.children[1], it)}
         [] st.kind = "repeat" ->
              UNION {IF o.stop
                     THEN pull(S, st.children[1], restart(S, st.children[1], o.it))
                     ELSE {o} :
                       o \in pull(S, st.children[1], it)}
         [] st.kind = "mux" -> mux_pull(S, s, it)
         [] st.kind = "infinite_mux" -> infinite_mux_pull(S, s, it)

---------------------------------------------------------------------------
(* The actions. *)
Resolved(r) ==
    /\ items' = r.w.items
    /\ streams' = r.w.streams
    /\ log' = r.w.log
    /\ err' = r.w.err
    /\ phase' = IF Raised(r.w) THEN "failed" ELSE "resolved"
    /\ cuts' = IF Raised(r.w) THEN 0 ELSE r.cuts
    /\ is_tarred' = IF Raised(r.w) THEN FALSE ELSE r.is_tarred
    /\ iter' = NewIter(r.w.streams)

Resolve ==
    /\ phase = "config"
    /\ Resolved(read_dataset_config(config, items))
    /\ UNCHANGED <<fs, config, items0, emitted, pulls, budget>>

Pull ==
    /\ phase = "resolved"
    /\ pulls < budget
    /\ \E o \in pull(streams, cuts, iter) :
          /\ ~o.stop
          /\ emitted' = Append(emitted, o.cut)
          /\ iter' = o.it
    /\ pulls' = pulls + 1
    /\ UNCHANGED <<fs, config, items, items0, phase, cuts, is_tarred, err, streams,
                   log, budget>>

Next == Resolve \/ Pull

---------------------------------------------------------------------------
(* Configurations.  A tree of N nodes is numbered in the order the         *)
(* resolution visits it (depth first); parent 0 is config.input_config.    *)
RECURSIVE AncSelf(_, _)
AncSelf(p, n) == IF n = 0 THEN {} ELSE {n} \cup AncSelf(p, p[n])

Shapes(N) ==
    {p \in [1..N -> 0..(N - 1)] :
        \A n \in 1..N : p[n] < n /\ (n > 1 => p[n] \in {0} \cup AncSelf(p, n - 1))}

RECURSIVE Sorted(_)
Sorted(S) ==
    IF S = {} THEN <<>>
    ELSE LET m == CHOOSE x \in S : \A y \in S : x <= y
         IN <<m>> \o Sorted(S \ {m})

Children(p, g) == Sorted({n \in DOMAIN p : p[n] = g})

AllTypes == KNOWN_DATASET_CONFIG_TYPES \cup {"unknown"}

\* the keys a leaf of each type names its source with: source n belongs to node n
LeafPaths(type, n) ==
    CASE type = "nemo" -> ("manifest_filepath" :> Str(n))
      [] type = "nemo_tarred" ->
            ("manifest_filepath" :> Str(n)) @@ ("tarred_audio_filepaths" :> Str(n))
      [] type = "lhotse" -> ("cuts_path" :> Str(n))
      [] type = "lhotse_shar" -> ("shar_path" :> Str(n))
      [] OTHER -> <<>>

Range(q) == {q[i] : i \in DOMAIN q}

\* node n of shape p, with what was chosen for it: its type, its weight
\* (None: not given), the keys of its tags (their value names the node), the
\* propagated keys it sets itself, and its source paths (None: source n)
Item(p, n, ch) ==
    ("type" :> ch.type)
    @@ (IF ch.weight # None THEN "weight" :> ch.weight ELSE <<>>)
    @@ (IF ch.tags # <<>> THEN "tags" :> [k \in Range(ch.tags) |-> n] ELSE <<>>)
    @@ ch.local
    @@ (IF ch.type = "group" THEN "components" :> Children(p, n)
        ELSE IF ch.paths # None THEN ch.paths
        ELSE LeafPaths(ch.type, n))

RootConfig(p, attrs) == ("input_config" :> Children(p, 0)) @@ attrs

DefaultAttrs ==
    [shuffle |-> TRUE, shard_seed |-> Str("trng"), text_field |-> "text",
     lang_field |-> "lang", missing_sampling_rate_ok |-> FALSE,
     max_open_streams |-> None]

\* Before resolution: a tree of at most Max nodes whose nodes are drawn from
\* Choices (only a group has components) and whose root attributes are drawn
\* from Roots, over the sources Files, for a consumer that pulls Budget cuts
InitWith(Max, Choices, Roots, Files, Budget) ==
    /\ \E N \in 1..Max : \E p \in Shapes(N) : \E ch \in [1..N -> Choices] :
        \E a \in Roots :
          /\ \A n \in 1..N : p[n] # 0 => ch[p[n]].type = "group"
          /\ config = RootConfig(p, a)
          /\ items = [n \in 1..N |-> Item(p, n, ch[n])]
          /\ items0 = [n \in 1..N |-> Item(p, n, ch[n])]
    /\ fs \in Files
    /\ budget = Budget
    /\ phase = "config"
    /\ cuts = 0
    /\ is_tarred = FALSE
    /\ err = None
    /\ streams = <<>>
    /\ log = <<>>
    /\ iter = NewIter(<<>>)
    /\ emitted = <<>>
    /\ pulls = 0

(* Spec: trees of every shape whose nodes are of every type, weighted or   *)
(* not, over sources of one shard.                                         *)
OneShard == {[p \in 1..MaxNodes |-> <<2>>]}

Init ==
    InitWith(MaxNodes,
             [type : AllTypes, weight : {None, Num(1)}, tags : {<<>>},
              local : {<<>>}, paths : {None}],
             {DefaultAttrs}, OneShard, 1)

Spec == Init /\ [][Next]_vars

(* SpecAttrs: weighted trees whose nodes may set one propagated key        *)
(* themselves.  The root holds the first value of the key, a node either   *)
(* leaves the key out or sets one of its values.                           *)
AttrValues(k) ==
    CASE k = "shuffle" -> <<TRUE, FALSE>>
      [] k = "shard_seed" -> <<Num(0), Str("trng"), Str("randomized")>>
      [] k = "text_field" -> <<"text", "answer", "transcript">>
      [] k = "lang_field" -> <<"lang", "target_lang", "source_lang">>
      [] k = "missing_sampling_rate_ok" -> <<FALSE, TRUE>>
      [] k = "max_open_streams" -> <<<<2>>, None, <<1>>>>

InitAttrs ==
    \E k \in PropagatedKeys :
        InitWith(MaxNodes,
                 [type : {"group", "nemo"}, weight : {Num(1)}, tags : {<<>>},
                  local : {<<>>} \cup {k :> v : v \in Range(AttrValues(k))},
                  paths : {None}],
                 {[DefaultAttrs EXCEPT ![k] = AttrValues(k)[1]]}, OneShard, 1)

SpecAttrs == InitAttrs /\ [][Next]_vars

(* SpecTags: weighted trees whose nodes may carry a tag.                   *)
TagKeys == {"lang", "task"}

InitTags ==
    InitWith(MaxNodes,
             [type : {"group", "nemo"}, weight : {Num(1)},
              tags : {<<>>} \cup {<<k>> : k \in TagKeys},
              local : {<<>>}, paths : {None}],
             {DefaultAttrs}, OneShard, MaxPulls)

SpecTags == InitTags /\ [][Next]_vars

(* SpecLeaf: one leaf naming up to MaxPaths sources of up to MaxShards     *)
(* shards each, under every open-stream cap.  Source p is named by entry p *)
(* of the list; its shard j holds j records.                               *)
Shards == {[p \in 1..MaxPaths |-> [j \in 1..c[p] |-> j]] :
             c \in [1..MaxPaths -> 1..MaxShards]}

ManifestEntries(p) == {<<Str(p)>>, <<Str(p), Num(3)>>, <<Str(p), Str(3)>>}

ManifestLists ==
    UNION {{m \in [1..L -> UNION {ManifestEntries(p) : p \in 1..L}] :
              \A i \in 1..L : m[i] \in ManifestEntries(i)} : L \in 1..MaxPaths}

TarLists == {[i \in 1..L |-> <<Str(i)>>] : L \in 1..MaxPaths}

SharEntries(p) == {Str(p), List(<<Str(p), Num(3)>>), List(<<Str(p)>>)}

SharLists ==
    UNION {{m \in [1..L -> UNION {SharEntries(p) : p \in 1..L}] :
              \A i \in 1..L : m[i] \in SharEntries(i)} : L \in 1..MaxPaths}

LeafChoices ==
    [type : {"nemo"}, weight : {Num(1)}, tags : {<<>>}, local : {<<>>},
     paths : {"manifest_filepath" :> x : x \in {Str(1)} \cup {List(m) : m \in ManifestLists}}]
    \cup
    [type : {"nemo_tarred"}, weight : {Num(1)}, tags : {<<>>}, local : {<<>>},
     paths : {("manifest_filepath" :> Str(1)) @@ ("tarred_audio_filepaths" :> Str(1))}
             \cup {("manifest_filepath" :> List(m)) @@ ("tarred_audio_filepaths" :> List(t)) :
                     m \in ManifestLists, t \in TarLists}]
    \cup
    [type : {"lhotse_shar"}, weight : {Num(1)}, tags : {<<>>}, local : {<<>>},
     paths : {"shar_path" :> x : x \in {Str(1)} \cup {List(m) : m \in SharLists}}]

Caps == {None, <<1>>, <<2>>}

InitLeaf ==
    InitWith(1, LeafChoices,
             {[DefaultAttrs EXCEPT !["max_open_streams"] = c] : c \in Caps},
             Shards, 1)

SpecLeaf == InitLeaf /\ [][Next]_vars

(* SpecMux: one leaf naming up to MaxPaths sources, under an open-stream   *)
(* cap or none, pulled MaxPulls times.                                     *)
PlainLists == {[i \in 1..L |-> <<Str(i)>>] : L \in 1..MaxPaths}

MuxChoices ==
    [type : {"nemo"}, weight : {Num(1)}, tags : {<<>>}, local : {<<>>},
     paths : {"manifest_filepath" :> List(m) : m \in PlainLists}]
    \cup
    [type : {"lhotse_shar"}, weight : {Num(1)}, tags : {<<>>}, local : {<<>>},
     paths : {"shar_path" :> List([i \in DOMAIN m |-> m[i][1]]) : m \in PlainLists}]

InitMux ==
    InitWith(1, MuxChoices,
             {[DefaultAttrs EXCEPT !["max_open_streams"] = c] : c \in Caps},
             Shards, MaxPulls)

SpecMux == InitMux /\ [][Next]_vars

---------------------------------------------------------------------------
(* What the properties below speak of: the tree the configuration spells, *)
(* read off the nodes as they were before resolution.                      *)
Nodes == DOMAIN items0

Groups == {n \in Nodes : items0[n]["type"] = "group"}

Leaves == {n \in Nodes : items0[n]["type"] \in KNOWN_DATASET_CONFIG_TYPES \ {"group"}}

\* the group whose components hold node n (0: config.input_config holds it)
ParentOf(n) ==
    IF \E g \in Groups : n \in Range(items0[g]["components"])
    THEN CHOOSE g \in Groups : n \in Range(items0[g]["components"])
    ELSE 0

ParentMap == [n \in Nodes |-> ParentOf(n)]

\* every list of children handed to parse_and_combine_datasets by some run
GroupLists == {config["input_config"]} \cup {items0[g]["components"] : g \in Groups}

Weighted(n) == get(items0[n], "weight") # None

PartialWeights(config_list) ==
    /\ \E i \in DOMAIN config_list : Weighted(config_list[i])
    /\ \E i \in DOMAIN config_list : ~Weighted(config_list[i])

Events(ev) == {i \in DOMAIN log : log[i].ev = ev}

---------------------------------------------------------------------------
(* C1: sibling weights are all-or-nothing.  A group passes the weight     *)
(* check exactly when every one of its children supplies a weight or none *)
(* does: the weight check fails only for a list of children of which some *)
(* but not all supply a weight, and no such list is ever combined.        *)
C1_WeightsAllOrNothing ==
    /\ err = <<"Missing dataset weight.">> =>
          \E cl \in GroupLists : PartialWeights(cl)
    /\ \A i \in Events("combined") : ~PartialWeights(log[i].config_list)

---------------------------------------------------------------------------
(* C2: tarredness is uniform and correctly reported.  Whenever resolution *)
(* succeeds and returns is_tarred = b, every leaf of the tree is of a     *)
(* kind whose tarredness is b; so a tree, of any depth, two of whose      *)
(* leaves disagree on tarredness never resolves: its resolution fails.    *)
C2_TarredUniform ==
    /\ phase = "resolved" =>
          \A n \in Leaves : leaf_is_tarred(items0[n]["type"]) = is_tarred
    /\ (phase # "config"
        /\ \E m, n \in Leaves :
              leaf_is_tarred(items0[m]["type"]) # leaf_is_tarred(items0[n]["type"]))
         => phase = "failed" /\ err # None /\ cuts = 0

\* a nested tree of tarred leaves of both tarred kinds resolved as tarred
C2_Witness ==
    /\ phase = "resolved"
    /\ is_tarred
    /\ Groups # {}
    /\ \E m, n \in Leaves :
          items0[m]["type"] = "nemo_tarred" /\ items0[n]["type"] = "lhotse_shar"

---------------------------------------------------------------------------
(* C8: configuration-shape errors precede source access.  When resolution *)
(* fails with a configuration-shape error (unknown type, partial sibling  *)
(* weights, tarred mixing, malformed weighted entry), no leaf source was  *)
(* instantiated and none had its length asked before the error.           *)
ShapeErrors ==
    {<<"Unknown item type in dataset config list">>,
     <<"Mixing tarred and non-tarred datasets is not supported.">>,
     <<"Supported inputs types for config.manifest_filepath are">>,
     <<"Supported inputs types for config.shar_path are">>}

ShapeError ==
    \/ err \in ShapeErrors
    \/ /\ err = <<"Missing dataset weight.">>
       /\ \E cl \in GroupLists : PartialWeights(cl)

C8_ErrorsBeforeSources ==
    (phase = "failed" /\ ShapeError) =>
        Events("open") = {} /\ Events("len") = {}

---------------------------------------------------------------------------
(* The propagated attributes a node was resolved with: those parse_group  *)
(* was called with for it.                                                *)
Visited == {log[i].node : i \in Events("parse_group")}

ResolvedWith(n) ==
    log[CHOOSE i \in Events("parse_group") : log[i].node = n].propagate_attrs

RootAttrs == [k \in PropagatedKeys |-> config[k]]

Inherited(n) == IF ParentOf(n) = 0 THEN RootAttrs ELSE ResolvedWith(ParentOf(n))

\* what the group whose list of children is config_list was resolved with
ListAttrs(config_list) ==
    IF config_list = config["input_config"] THEN RootAttrs
    ELSE ResolvedWith(CHOOSE g \in Groups : items0[g]["components"] = config_list)

(* C3: propagated attributes cascade strictly downward.  For every        *)
(* propagated key, the value a node is resolved with is its own local     *)
(* value if it sets the key, otherwise the value its parent was resolved  *)
(* with (the root configuration's at the top level); that is the value    *)
(* the node itself reads, and the one its sources are opened with.        *)
C3_CascadeDownward ==
    /\ \A n \in Visited : \A k \in PropagatedKeys :
          /\ ResolvedWith(n)[k] = IF k \in DOMAIN items0[n] THEN items0[n][k]
                                  ELSE Inherited(n)[k]
          /\ items[n][k] = ResolvedWith(n)[k]
    /\ \A i \in Events("open") :
          /\ log[i].kwargs.text_field = ResolvedWith(log[i].node)["text_field"]
          /\ log[i].kwargs.lang_field = ResolvedWith(log[i].node)["lang_field"]

\* a group overrides a key: its child inherits the override, the sibling
\* resolved after it still gets the root's value
C3_Witness ==
    /\ phase = "resolved"
    /\ \E g \in Groups : \E c, s \in Nodes : \E k \in PropagatedKeys :
          /\ k \in DOMAIN items0[g] /\ items0[g][k] # config[k]
          /\ ParentOf(c) = g /\ k \notin DOMAIN items0[c]
          /\ ParentOf(s) = ParentOf(g) /\ s > g /\ k \notin DOMAIN items0[s]
          /\ ResolvedWith(c)[k] = items0[g][k]
          /\ ResolvedWith(s)[k] = config[k]

---------------------------------------------------------------------------
(* C9: the multiplexer that combines the children of a group is invoked   *)
(* with the group's own propagated settings: its max_open_streams is the  *)
(* value the group was resolved with, and its seed is the shard_seed the  *)
(* group was resolved with, for every group at every depth.               *)
C9_GroupMuxSettings ==
    \A i \in Events("combined") : \A j \in Events("mux") :
        log[j].cuts = log[i].cuts =>
            /\ log[j].max_open_streams =
                   ListAttrs(log[i].config_list)["max_open_streams"]
            /\ log[j].seed = ListAttrs(log[i].config_list)["shard_seed"]

---------------------------------------------------------------------------
(* C10 as stated: resolution does not mutate its inputs.  After it ran,   *)
(* every node has exactly the keys and values it had before, and the      *)
(* attributes a call received are what they were.                         *)
C10_InputsUnchanged ==
    phase # "config" =>
        /\ items = items0
        /\ \A i \in Events("combined") :
              log[i].propagate_attrs = ListAttrs(log[i].config_list)

(* C10, amended: resolution only adds to its inputs.  After it ran, every *)
(* node has every key it had before with the value it had; the keys it    *)
(* gained are propagated keys it did not set, holding the value it        *)
(* inherited; and the attributes a call received are unchanged when it    *)
(* returns (its children get a copy).                                     *)
C10_OnlyInheritedKeysAdded ==
    phase # "config" =>
        /\ \A n \in Nodes :
              /\ \A k \in DOMAIN items0[n] :
                    k \in DOMAIN items[n] /\ items[n][k] = items0[n][k]
              /\ \A k \in DOMAIN items[n] \ DOMAIN items0[n] :
                    k \in PropagatedKeys /\ items[n][k] = Inherited(n)[k]
        /\ \A i \in Events("combined") :
              log[i].propagate_attrs = ListAttrs(log[i].config_list)

\* a node that sets a key of its own, against what it inherits, has gained
\* the other propagated keys and kept its own
C10_Witness ==
    /\ phase # "config"
    /\ \E n \in Nodes : \E k \in PropagatedKeys \cap DOMAIN items0[n] :
          /\ items0[n][k] # Inherited(n)[k]
          /\ items[n][k] = items0[n][k]
          /\ DOMAIN items[n] = DOMAIN items0[n] \cup PropagatedKeys
          /\ DOMAIN items[n] # DOMAIN items0[n]

---------------------------------------------------------------------------
(* The nodes whose subtree holds node n: n and the groups that enclose it. *)
Path(n) == AncSelf(ParentMap, n)

Declares(n, k) == "tags" \in DOMAIN items0[n] /\ k \in DOMAIN items0[n]["tags"]

(* C4 as stated: tags are scoped to the subtree that declares them.       *)
(* Every cut emitted has every tag of every node whose subtree holds the  *)
(* cut's leaf, and no tag set by a node whose subtree does not hold it.   *)
C4_TagsScoped ==
    \A i \in DOMAIN emitted : \A n \in Nodes : \A k \in TagKeys :
        Declares(n, k) =>
            IF n \in Path(emitted[i].node)
            THEN k \in DOMAIN emitted[i].tags
                 /\ emitted[i].tags[k] = items0[n]["tags"][k]
            ELSE k \in DOMAIN emitted[i].tags
                 => emitted[i].tags[k] # items0[n]["tags"][k]

(* C4, amended: the keys a cut is tagged with are those declared by the   *)
(* nodes whose subtree holds its leaf, and under each key the cut has the *)
(* value of the outermost of the nodes declaring it (an enclosing group's *)
(* value replaces the one set further in); no other node's tags reach it. *)
C4_OutermostTagWins ==
    \A i \in DOMAIN emitted :
        /\ DOMAIN emitted[i].tags =
               {k \in TagKeys : \E n \in Path(emitted[i].node) : Declares(n, k)}
        /\ \A k \in DOMAIN emitted[i].tags :
              \E n \in Path(emitted[i].node) :
                  /\ Declares(n, k)
                  /\ \A m \in Path(emitted[i].node) : Declares(m, k) => n \in Path(m)
                  /\ emitted[i].tags[k] = items0[n]["tags"][k]

\* a cut of a leaf that declares a key which an enclosing group also
\* declares, beside a sibling with tags of its own
C4_Witness ==
    \E i \in DOMAIN emitted : \E inner, outer \in Path(emitted[i].node) :
      \E k \in TagKeys :
        /\ inner # outer /\ outer \in Path(inner)
        /\ Declares(inner, k) /\ Declares(outer, k)
        /\ emitted[i].tags[k] = items0[outer]["tags"][k]
        /\ \E n \in Nodes \ Path(emitted[i].node) : "tags" \in DOMAIN items0[n]

---------------------------------------------------------------------------
(* C5: a tarred leaf whose manifest_filepath is a list and whose          *)
(* tarred_audio_filepaths has another number of entries is rejected:      *)
(* resolution fails and returns no stream.                                *)
C5_MismatchRejected ==
    \A n \in Nodes :
        (/\ phase # "config"
         /\ items0[n]["type"] = "nemo_tarred"
         /\ IsList(items0[n]["manifest_filepath"])
         /\ Len(items0[n]["manifest_filepath"].list)
                # Len(items0[n]["tarred_audio_filepaths"].list))
        => phase = "failed" /\ cuts = 0

---------------------------------------------------------------------------
(* The sources of a leaf and what the leaf handed to its multiplexer.     *)
NemoLeaves == {n \in Nodes : items0[n]["type"] \in {"nemo", "nemo_tarred"}}

Capped(n) == items[n]["max_open_streams"] # None

\* the sources leaf n opened, in order
Opened(n) == {i \in Events("open") : log[i].node = n}

\* the source streams built over the source at path p of leaf n
SourceStreams(n, p) ==
    {s \in DOMAIN streams :
        streams[s].kind = "source" /\ streams[s].node = n /\ streams[s].path = p}

\* the multiplexer calls made over source streams of leaf n alone
LeafMux(n) ==
    {j \in Events("mux") :
        \A x \in Range(log[j].cutsets) :
            streams[x].kind = "source" /\ streams[x].node = n}

\* the weight an entry of manifest_filepath gives the source it names
EntryWeight(manifest_info) ==
    IF Len(manifest_info) = 1 THEN Sum(fs[manifest_info[1].str])
    ELSE manifest_info[2].num

\* the (manifest entry, tar entry) pairs leaf n goes through
Pairs(n) ==
    Zip(items0[n]["manifest_filepath"].list,
        nemo_tar_paths(items0[n], items0[n]["type"] = "nemo_tarred"))

---------------------------------------------------------------------------
(* C7: when max_open_streams is set, mux selects the bounded strategy,    *)
(* and after any sequence of pulls on its output, those that exhaust a    *)
(* source and have it replaced included, the multiplexer holds at most    *)
(* max_open_streams of its inputs open.                                   *)
C7_BoundedOpen ==
    \A j \in Events("mux") :
        log[j].max_open_streams # None =>
            /\ streams[log[j].cuts].kind = "infinite_mux"
            /\ streams[log[j].cuts].max_open_streams = log[j].max_open_streams
            /\ Cardinality(iter.open[log[j].cuts]) <= log[j].max_open_streams[1]

\* a bounded multiplexer of more inputs than its cap has begun, and one of
\* its inputs was read to its end and replaced
C7_Witness ==
    \E j \in Events("mux") :
        /\ log[j].max_open_streams # None
        /\ Len(log[j].cutsets) > log[j].max_open_streams[1]
        /\ log[j].cuts \in iter.begun
        /\ Cardinality(iter.open[log[j].cuts]) = log[j].max_open_streams[1]
        /\ \E c \in Range(log[j].cutsets) \ iter.open[log[j].cuts] :
              streams[c].kind = "source" /\ iter.pos[c] = streams[c].count

---------------------------------------------------------------------------
(* SpecStarve: what the resolver hands a bounded multiplexer.  Either one *)
(* multi-path leaf (of nemo sources, or of shar sources, each wrapped in  *)
(* repeat()), or a tree of groups and single-path leaves, a group's       *)
(* children being leaves and the multiplexers of inner groups; pulled     *)
(* MaxPulls times.                                                        *)
InitGroups ==
    InitWith(MaxNodes,
             [type : {"group", "nemo"}, weight : {Num(1)}, tags : {<<>>},
              local : {<<>>}, paths : {None}],
             {[DefaultAttrs EXCEPT !["max_open_streams"] = c] : c \in Caps},
             OneShard, MaxPulls)

InitStarve == InitMux \/ InitGroups

SpecStarve == InitStarve /\ [][Next]_vars

---------------------------------------------------------------------------
(* What the pipeline can still do: the iterator states some sequence of   *)
(* pulls on the returned CutSet leads to, and the cuts those pulls emit.  *)
Emitting(it) == {o \in pull(streams, cuts, it) : ~o.stop}

Step(its) == UNION {{o.it : o \in Emitting(it)} : it \in its}

\* the iterator states reachable from those of frontier, seen being known
RECURSIVE Closure(_, _)
Closure(seen, frontier) ==
    IF frontier = {} THEN seen
    ELSE Closure(seen \cup Step(frontier), Step(frontier) \ seen)

ReachableIters == Closure({iter}, {iter})

\* the leaf sources CutSet c reads from
RECURSIVE SourcesUnder(_)
SourcesUnder(c) ==
    IF streams[c].kind = "source" THEN {c}
    ELSE UNION {SourcesUnder(streams[c].children[i]) :
                  i \in DOMAIN streams[c].children}

FromUnder(c, cut) ==
    \E x \in SourcesUnder(c) :
        /\ streams[x].node = cut.node
        /\ streams[x].path = cut.path
        /\ streams[x].shard = cut.shard

\* some continuation has input c of multiplexer s open and emits a cut of it
CanServe(s, c) ==
    \E it \in ReachableIters : \E o \in Emitting(it) :
        c \in o.it.open[s] /\ FromUnder(c, o.cut)

(* C11: no source is starved under the bounded strategy.  In every state  *)
(* reachable by pulls, every input of positive weight of a multiplexer    *)
(* called with max_open_streams set, over more inputs than that, can      *)
(* still come to be opened and have a cut emitted from it by some         *)
(* continuation; the inputs being what the resolver passes in.            *)
C11_NoStarvation ==
    phase = "resolved" =>
        \A j \in Events("mux") :
            (/\ log[j].max_open_streams # None
             /\ Len(log[j].cutsets) > log[j].max_open_streams[1])
            => \A x \in DOMAIN log[j].cutsets :
                   log[j].weights[x] > 0 => CanServe(log[j].cuts, log[j].cutsets[x])

=============================================================================
